---------------------------- MODULE Spec2Model ----------------------------
(***************************************************************************)
(* Conformal lattice planner: the loop router (router::LoopRouter) and the *)
(* waypoint lattice (planner::Lattice) that is built on top of it.         *)
(*                                                                         *)
(* Distances are integers (one unit is the finest distance the model       *)
(* tells apart); a waypoint is a record [id, road, lane].                  *)
(***************************************************************************)
EXTENDS Integers, Sequences, FiniteSets, TLC

VARIABLES
  \* ---- the caller of the router: the last call and what it produced
  call,        \* the last router call: [op, road, waypoint, distance, candidates]
  result,      \* what the call produced: a value, nullptr or an exception
  origin,      \* the call whose returned road was fed to this call, or NoCall
  \* ---- the lattice and the last two operations applied to it
  lattice,     \* the members of planner::Lattice and the nodes it owns
  last,        \* the last operation on the lattice: [op, arg]
  prev,        \* the lattice before the last operation
  last2,       \* the operation before the last one
  prev2,       \* the lattice before that operation
  \* ---- the caller of the const queries of the lattice
  asked,       \* the last query: [op, waypoint, range] or [op, waypoint, tolerance]
  answer       \* the nodes the query returned (NoNode is nullptr)

rvars == <<call, result, origin>>
qvars == <<asked, answer>>
lvars == <<lattice, last, prev, last2, prev2, qvars>>
vars  == <<rvars, lvars>>

(***************************************************************************)
(* Bounds of the model.                                                    *)
(***************************************************************************)
\* Longest candidate list GetNext() hands to the router.
MaxCand == 2
\* Largest distance passed to frontWaypoint() by the router's caller.
MaxDist == 2
\* The road network has positions 0..LastPos along the route.
LastPos == 6
\* Lanes are numbered 1..NumLanes from right to left.
NumLanes == 3
\* Number of consecutive positions that lie on the same road.
RoadLen == 2
\* The position the lattice starts at.
StartPos == 0
\* Largest range passed to the constructor, extend() and shorten().
MaxRange == 4
\* Largest movement passed to shift().
MaxShift == 2
\* Largest tolerance a caller passes to closestNode().
MaxTolerance == 2
\* Largest longitudinal resolution a lattice is built with.
MaxResolution == 2

(***************************************************************************)
(* LoopRouter                                                              *)
(***************************************************************************)
\* LoopRouter::LoopRouter(): the fixed loop of road ids.
road_sequence_ ==
  <<47, 558, 48, 887, 49, 717, 50, 42, 276, 43, 35, 636, 36,
    540, 37, 1021, 38, 678, 39, 728, 40, 841, 41, 6, 45, 103,
    46, 659>>

NumRoads == Len(road_sequence_)

\* Results of the router's operations.
Value(r)     == [tag |-> "value", road |-> r]
Waypoint(w)  == [tag |-> "waypoint", waypoint |-> w]
Nullptr      == [tag |-> "nullptr"]
OutOfRange   == [tag |-> "out_of_range"]     \* std::out_of_range thrown
RuntimeError == [tag |-> "runtime_error"]    \* std::runtime_error thrown

\* std::find over a vector: the index of the first element equal to x, or
\* Len(seq) + 1 (the end iterator) if there is none.
RECURSIVE FindFrom(_, _, _)
FindFrom(seq, x, i) ==
  IF i > Len(seq) THEN Len(seq) + 1
  ELSE IF seq[i] = x THEN i
  ELSE FindFrom(seq, x, i + 1)

Find(seq, x) == FindFrom(seq, x, 1)

\* Mutant of nextRoad: the last road does not wrap to the first.
nextRoadNoWrap(road) ==
  LET iter == Find(road_sequence_, road)
      end  == Len(road_sequence_) + 1
  IN  IF iter = end THEN OutOfRange
      ELSE IF iter /= end - 1 THEN Value(road_sequence_[iter + 1])
      ELSE Value(road_sequence_[iter])

\* Mutant of nextRoad: a road that is not on the route yields the first road.
nextRoadNoThrow(road) ==
  LET iter == Find(road_sequence_, road)
      end  == Len(road_sequence_) + 1
  IN  IF iter = end THEN Value(road_sequence_[1])
      ELSE IF iter /= end - 1 THEN Value(road_sequence_[iter + 1])
      ELSE Value(road_sequence_[1])

\* LoopRouter::nextRoad(const size_t road)
nextRoad(road) ==
  LET iter == Find(road_sequence_, road)
      end  == Len(road_sequence_) + 1
  IN  IF iter = end THEN OutOfRange
      ELSE IF iter /= end - 1 THEN Value(road_sequence_[iter + 1])
      ELSE Value(road_sequence_[1])

\* Mutant of prevRoad: the first road wraps to itself instead of the last.
prevRoadWrapFront(road) ==
  LET iter == Find(road_sequence_, road)
      end  == Len(road_sequence_) + 1
  IN  IF iter = end THEN OutOfRange
      ELSE IF iter /= 1 THEN Value(road_sequence_[iter - 1])
      ELSE Value(road_sequence_[1])

\* LoopRouter::prevRoad(const size_t road)
prevRoad(road) ==
  LET iter == Find(road_sequence_, road)
      end  == Len(road_sequence_) + 1
  IN  IF iter = end THEN OutOfRange
      ELSE IF iter /= 1 THEN Value(road_sequence_[iter - 1])
      ELSE Value(road_sequence_[Len(road_sequence_)])

\* The loop of waypointOnRoute: the first candidate whose road is on the route.
RECURSIVE OnRouteScan(_, _)
OnRouteScan(candidates, i) ==
  IF i > Len(candidates) THEN Nullptr
  ELSE IF Find(road_sequence_, candidates[i].road) /= Len(road_sequence_) + 1
       THEN Waypoint(candidates[i])
  ELSE OnRouteScan(candidates, i + 1)

\* Mutant of waypointOnRoute: the candidates are scanned from the back.
RECURSIVE OnRouteScanBack(_, _)
OnRouteScanBack(candidates, i) ==
  IF i < 1 THEN Nullptr
  ELSE IF Find(road_sequence_, candidates[i].road) /= Len(road_sequence_) + 1
       THEN Waypoint(candidates[i])
  ELSE OnRouteScanBack(candidates, i - 1)

waypointOnRouteLast(waypoint, candidates) ==
  OnRouteScanBack(candidates, Len(candidates))

\* LoopRouter::waypointOnRoute(waypoint); candidates is waypoint->GetNext(0.01).
waypointOnRoute(waypoint, candidates) ==
  OnRouteScan(candidates, 1)

\* Mutant of the loop of frontWaypoint: a candidate on the next road is
\* never kept.
RECURSIVE FrontScanSameRoad(_, _, _, _, _)
FrontScanSameRoad(candidates, i, this_road, next_road, next_waypoint) ==
  IF i > Len(candidates) THEN next_waypoint
  ELSE IF candidates[i].road = this_road THEN Waypoint(candidates[i])
  ELSE FrontScanSameRoad(candidates, i + 1, this_road, next_road, next_waypoint)

\* The loop of frontWaypoint over the candidates, next_waypoint being the
\* candidate on the next road seen so far.
RECURSIVE FrontScan(_, _, _, _, _)
FrontScan(candidates, i, this_road, next_road, next_waypoint) ==
  IF i > Len(candidates) THEN next_waypoint
  ELSE IF candidates[i].road = this_road THEN Waypoint(candidates[i])
  ELSE IF candidates[i].road = next_road
       THEN FrontScan(candidates, i + 1, this_road, next_road, Waypoint(candidates[i]))
  ELSE FrontScan(candidates, i + 1, this_road, next_road, next_waypoint)

\* Mutant of frontWaypoint: a candidate on the next road is returned as soon
\* as it is seen, before a later candidate on the same road.
RECURSIVE FrontScanEager(_, _, _, _)
FrontScanEager(candidates, i, this_road, next_road) ==
  IF i > Len(candidates) THEN Nullptr
  ELSE IF candidates[i].road = this_road \/ candidates[i].road = next_road
       THEN Waypoint(candidates[i])
  ELSE FrontScanEager(candidates, i + 1, this_road, next_road)

frontWaypointEager(waypoint, distance, candidates) ==
  IF distance <= 0 THEN RuntimeError
  ELSE LET this_road    == waypoint.road
           is_next_road == nextRoad(this_road)
       IN  IF is_next_road.tag = "out_of_range" THEN OutOfRange
           ELSE FrontScanEager(candidates, 1, this_road, is_next_road.road)

\* Mutant of frontWaypoint: only a negative distance is refused.
frontWaypointZeroOk(waypoint, distance, candidates) ==
  IF distance < 0 THEN RuntimeError
  ELSE LET this_road    == waypoint.road
           is_next_road == nextRoad(this_road)
       IN  IF is_next_road.tag = "out_of_range" THEN OutOfRange
           ELSE FrontScan(candidates, 1, this_road, is_next_road.road, Nullptr)

\* Mutant of frontWaypoint: the road after the waypoint's road is looked up
\* only when no candidate is on the waypoint's own road.
frontWaypointLazyNext(waypoint, distance, candidates) ==
  IF distance <= 0 THEN RuntimeError
  ELSE LET this_road == waypoint.road
           same == FrontScanSameRoad(candidates, 1, this_road, this_road, Nullptr)
           is_next_road == nextRoad(this_road)
       IN  IF same /= Nullptr THEN same
           ELSE IF is_next_road.tag = "out_of_range" THEN OutOfRange
           ELSE FrontScan(candidates, 1, this_road, is_next_road.road, Nullptr)

\* LoopRouter::frontWaypoint(waypoint, distance); candidates is
\* waypoint->GetNext(distance).
frontWaypoint(waypoint, distance, candidates) ==
  IF distance <= 0 THEN RuntimeError
  ELSE LET this_road    == waypoint.road
           is_next_road == nextRoad(this_road)
       IN  IF is_next_road.tag = "out_of_range" THEN OutOfRange
           ELSE FrontScan(candidates, 1, this_road, is_next_road.road, Nullptr)

(***************************************************************************)
(* The road network the router and the lattice query.                      *)
(*                                                                         *)
(* Positions 0..LastPos lie along the loop, RoadLen positions per road,    *)
(* starting two roads before the end of road_sequence_ so that the loop's  *)
(* wrap-around is crossed.  Lanes run in parallel; a world says where a    *)
(* lane is missing.                                                        *)
(***************************************************************************)
Worlds == 1..5

\* Whether lane l exists at position p in world w.
LaneExists(w, p, l) ==
  /\ p \in 0..LastPos
  /\ l \in 1..NumLanes
  /\ CASE w = 1 -> TRUE                              \* every lane, everywhere
       [] w = 2 -> ~(l = NumLanes /\ p \in 2..3)     \* the leftmost lane has a gap
       [] w = 3 -> ~(l = 1 /\ p >= 3)                \* the rightmost lane ends
       [] w = 4 -> ~(l = 2 /\ p >= 4)                \* the second lane ends
       [] OTHER -> ~(l = NumLanes /\ p = StartPos + 1)
                                                     \* the leftmost lane is
                                                     \* interrupted at one position

\* The road at position p.
RoadOf(p) == road_sequence_[((NumRoads - 2 + (p \div RoadLen)) % NumRoads) + 1]

\* The waypoint of lane l at position p.
WaypointAt(p, l) ==
  [id |-> p * (NumLanes + 1) + l, road |-> RoadOf(p), lane |-> l, x |-> p]

\* The waypoint of the road that branches off the loop at position p.
BranchWaypoint(p, l) ==
  [id |-> (LastPos + 1 + p) * (NumLanes + 1) + l, road |-> 999, lane |-> l,
   x |-> p]

\* carla::client::Waypoint::GetNext(distance): the waypoints that lie
\* distance ahead; where a new road starts, the road branching off the loop
\* is listed before the road of the loop.
GetNext(w, waypoint, distance) ==
  LET p   == waypoint.x
      l   == waypoint.lane
      q   == p + distance
      on  == IF \A k \in (p + 1)..q : LaneExists(w, k, l)
               THEN <<WaypointAt(q, l)>> ELSE <<>>
      off == IF q <= LastPos /\ RoadOf(q) /= RoadOf(p)
               THEN <<BranchWaypoint(q, l)>> ELSE <<>>
  IN  off \o on

\* Router::leftWaypoint(waypoint): the waypoint on the lane to the left.
leftWaypoint(w, waypoint) ==
  IF LaneExists(w, waypoint.x, waypoint.lane + 1)
    THEN Waypoint(WaypointAt(waypoint.x, waypoint.lane + 1))
    ELSE Nullptr

\* Router::rightWaypoint(waypoint): the waypoint on the lane to the right.
rightWaypoint(w, waypoint) ==
  IF LaneExists(w, waypoint.x, waypoint.lane - 1)
    THEN Waypoint(WaypointAt(waypoint.x, waypoint.lane - 1))
    ELSE Nullptr

(***************************************************************************)
(* Lattice<Node, Router>                                                   *)
(*                                                                         *)
(* A lattice is a record of the members of the class:                      *)
(*   router_, lattice_entry_, lattice_exit_, waypoint_to_node_table_,      *)
(*   roadlane_to_waypoints_table_, longitudinal_resolution_                *)
(* and nodes, the node objects the shared pointers of the tables own.  A   *)
(* node is known by the id of its waypoint; NoNode is the null pointer.    *)
(***************************************************************************)
NoNode == 0

\* WaypointNode(waypoint) with its four neighbours unset.
NewNode(waypoint, distance) ==
  [waypoint |-> waypoint, distance |-> distance,
   front |-> NoNode, back |-> NoNode, left |-> NoNode, right |-> NoNode]

\* utils::hashCombine(roadlane_id, road, lane), taken to be free of collisions.
hashCombine(road, lane) == road * (NumLanes + 1) + lane

\* Lattice::augmentWaypointToNodeTable
augmentWaypointToNodeTable(table, waypoint_id, n) ==
  [k \in DOMAIN table \cup {waypoint_id} |->
     IF k = waypoint_id THEN n ELSE table[k]]

\* Mutant of reduceWaypointToNodeTable: nothing is erased.
reduceWaypointKeep(table, waypoint_id) == table

\* Lattice::reduceWaypointToNodeTable
reduceWaypointToNodeTable(table, waypoint_id) ==
  [k \in DOMAIN table \ {waypoint_id} |-> table[k]]

\* Mutant of augmentRoadlaneToWaypointsTable: the lane is left out of the
\* hash, so the bucket is that of the road.
augmentRoadlaneNoLane(table, waypoint) ==
  LET roadlane_id == hashCombine(waypoint.road, 0)
      initialized ==
        IF roadlane_id \notin DOMAIN table
          THEN [k \in DOMAIN table \cup {roadlane_id} |->
                  IF k = roadlane_id THEN <<>> ELSE table[k]]
          ELSE table
  IN  [initialized EXCEPT ![roadlane_id] = Append(@, waypoint.id)]

\* Mutant of augmentRoadlaneToWaypointsTable: a bucket that is not in the
\* table is initialized and the waypoint is not pushed to it.
augmentRoadlaneSkipFirst(table, waypoint) ==
  LET roadlane_id == hashCombine(waypoint.road, waypoint.lane)
  IN  IF roadlane_id \notin DOMAIN table
        THEN [k \in DOMAIN table \cup {roadlane_id} |->
                IF k = roadlane_id THEN <<>> ELSE table[k]]
        ELSE [table EXCEPT ![roadlane_id] = Append(@, waypoint.id)]

\* Mutant of augmentRoadlaneToWaypointsTable: a bucket that is not in the
\* table is initialized with the waypoint, which is then pushed to it again.
augmentRoadlanePushTwice(table, waypoint) ==
  LET roadlane_id == hashCombine(waypoint.road, waypoint.lane)
      initialized ==
        IF roadlane_id \notin DOMAIN table
          THEN [k \in DOMAIN table \cup {roadlane_id} |->
                  IF k = roadlane_id THEN <<waypoint.id>> ELSE table[k]]
          ELSE table
  IN  [initialized EXCEPT ![roadlane_id] = Append(@, waypoint.id)]

\* Lattice::augmentRoadlaneToWaypointsTable
augmentRoadlaneToWaypointsTable(table, waypoint) ==
  LET roadlane_id == hashCombine(waypoint.road, waypoint.lane)
      initialized ==
        IF roadlane_id \notin DOMAIN table
          THEN [k \in DOMAIN table \cup {roadlane_id} |->
                  IF k = roadlane_id THEN <<>> ELSE table[k]]
          ELSE table
  IN  [initialized EXCEPT ![roadlane_id] = Append(@, waypoint.id)]

\* std::remove_if: the elements that are kept, in order, followed by what is
\* left in the tail of the vector (here the tail keeps its old elements).
RemoveIfKept(waypoints, id) ==
  LET Keep(x) == x /= id IN SelectSeq(waypoints, Keep)

\* Mutant of reduceRoadlaneToWaypointsTable: the erase after remove_if is
\* missing, so the vector keeps its length.
reduceRoadlaneNoErase(table, waypoint) ==
  LET roadlane_id == hashCombine(waypoint.road, waypoint.lane)
  IN  IF roadlane_id \in DOMAIN table
        THEN LET waypoints == table[roadlane_id]
                 kept      == RemoveIfKept(waypoints, waypoint.id)
             IN  [table EXCEPT ![roadlane_id] =
                    kept \o SubSeq(waypoints, Len(kept) + 1, Len(waypoints))]
        ELSE table

\* Lattice::reduceRoadlaneToWaypointsTable: the bucket stays in the table
\* even when its last waypoint is removed.
reduceRoadlaneToWaypointsTable(table, waypoint) ==
  LET roadlane_id == hashCombine(waypoint.road, waypoint.lane)
  IN  IF roadlane_id \in DOMAIN table
        THEN [table EXCEPT ![roadlane_id] = RemoveIfKept(@, waypoint.id)]
        ELSE table

\* Lattice::findFrontWaypoint
findFrontWaypoint(L, waypoint, range) ==
  frontWaypoint(waypoint, range, GetNext(L.router_, waypoint, range))

\* Lattice::findLeftWaypoint
findLeftWaypoint(L, waypoint) == leftWaypoint(L.router_, waypoint)

\* Lattice::findRightWaypoint
findRightWaypoint(L, waypoint) == rightWaypoint(L.router_, waypoint)

\* The range of the lattice, as shift() computes it.
Range(L) ==
  L.nodes[L.lattice_exit_].distance - L.nodes[L.lattice_entry_].distance

\* A new node for the waypoint, entered in both tables.
AddNode(L, waypoint, distance) ==
  [L EXCEPT
     !.nodes = [k \in DOMAIN @ \cup {waypoint.id} |->
                  IF k = waypoint.id THEN NewNode(waypoint, distance) ELSE @[k]],
     !.waypoint_to_node_table_ =
        augmentWaypointToNodeTable(@, waypoint.id, waypoint.id),
     !.roadlane_to_waypoints_table_ =
        augmentRoadlaneToWaypointsTable(@, waypoint)]

\* Mutant of LinkFront: the back reference is not set.
LinkFrontOneWay(nodes, a, b) == [nodes EXCEPT ![a].front = b]

\* b becomes the front of a, and a the back of b.
LinkFront(nodes, a, b) == [nodes EXCEPT ![a].front = b, ![b].back = a]

\* b becomes the left of a, and a the right of b.
LinkLeft(nodes, a, b) == [nodes EXCEPT ![a].left = b, ![b].right = a]

\* Lattice::extendFront: S is [lat, queue], n the node taken from the queue.
\* A router that finds no waypoint ends the chain.
extendFront(S, n, range) ==
  LET L     == S.lat
      node  == L.nodes[n]
      found == findFrontWaypoint(L, node.waypoint, L.longitudinal_resolution_)
      front_distance == node.distance + L.longitudinal_resolution_
  IN  IF found.tag /= "waypoint" \/
         front_distance > L.nodes[L.lattice_entry_].distance + range
        THEN S
      ELSE IF found.waypoint.id \in DOMAIN L.waypoint_to_node_table_
        THEN [S EXCEPT !.lat.nodes =
                LinkFront(@, n, L.waypoint_to_node_table_[found.waypoint.id])]
      ELSE [lat   |-> [AddNode(L, found.waypoint, front_distance) EXCEPT
                         !.nodes = LinkFront(@, n, found.waypoint.id)],
            queue |-> Append(S.queue, found.waypoint.id)]

\* Lattice::extendLeft
extendLeft(S, n, range) ==
  LET L     == S.lat
      node  == L.nodes[n]
      found == findLeftWaypoint(L, node.waypoint)
  IN  IF found.tag /= "waypoint" THEN S
      ELSE IF found.waypoint.id \in DOMAIN L.waypoint_to_node_table_
        THEN [S EXCEPT !.lat.nodes =
                LinkLeft(@, n, L.waypoint_to_node_table_[found.waypoint.id])]
      ELSE [lat   |-> [AddNode(L, found.waypoint, node.distance) EXCEPT
                         !.nodes = LinkLeft(@, n, found.waypoint.id)],
            queue |-> Append(S.queue, found.waypoint.id)]

\* Lattice::extendRight
extendRight(S, n, range) ==
  LET L     == S.lat
      node  == L.nodes[n]
      found == findRightWaypoint(L, node.waypoint)
  IN  IF found.tag /= "waypoint" THEN S
      ELSE IF found.waypoint.id \in DOMAIN L.waypoint_to_node_table_
        THEN [S EXCEPT !.lat.nodes =
                LinkLeft(@, L.waypoint_to_node_table_[found.waypoint.id], n)]
      ELSE [lat   |-> [AddNode(L, found.waypoint, node.distance) EXCEPT
                         !.nodes = LinkLeft(@, found.waypoint.id, n)],
            queue |-> Append(S.queue, found.waypoint.id)]

\* The queue of extend() and of the constructor: every node taken from the
\* queue is extended to the front, to the left and to the right.
RECURSIVE ExtendLoop(_, _)
ExtendLoop(S, range) ==
  IF S.queue = <<>> THEN S.lat
  ELSE LET n  == Head(S.queue)
           S0 == [S EXCEPT !.queue = Tail(@)]
       IN  ExtendLoop(
             extendRight(extendLeft(extendFront(S0, n, range), n, range), n, range),
             range)

\* The largest distance of a node.
MaxDistance(nodes) ==
  CHOOSE d \in {nodes[n].distance : n \in DOMAIN nodes} :
    \A n \in DOMAIN nodes : nodes[n].distance <= d

\* A node with maximum distance: the one whose lane is nearest to the lane
\* of the entry (the lower lane of two equally near).
Farthest(L) ==
  LET far  == {n \in DOMAIN L.nodes : L.nodes[n].distance = MaxDistance(L.nodes)}
      lane == L.nodes[L.lattice_entry_].waypoint.lane
      Off(n) == LET d == L.nodes[n].waypoint.lane - lane
                IN  IF d < 0 THEN -2 * d - 1 ELSE 2 * d
  IN  CHOOSE n \in far : \A m \in far : Off(n) <= Off(m)

\* The elements of a set of node ids in increasing order.
RECURSIVE Sorted(_)
Sorted(ids) ==
  IF ids = {} THEN <<>>
  ELSE LET least == CHOOSE n \in ids : \A m \in ids : n <= m
       IN  <<least>> \o Sorted(ids \ {least})

\* Mutant of the walk of updateNodeDistance: a node reached over a left or
\* right link is one resolution farther as well.
RECURSIVE WalkDistanceLateralStep(_, _, _)
WalkDistanceLateralStep(L, dist, frontier) ==
  LET reached == DOMAIN dist
      steps == UNION {{<<L.nodes[m].front, dist[m] + L.longitudinal_resolution_>>,
                       <<L.nodes[m].left, dist[m] + L.longitudinal_resolution_>>,
                       <<L.nodes[m].right, dist[m] + L.longitudinal_resolution_>>} :
                      m \in frontier}
      fresh == {s \in steps : s[1] /= NoNode /\ s[1] \notin reached}
      next  == {s[1] : s \in fresh}
  IN  IF next = {} THEN dist
      ELSE WalkDistanceLateralStep(L,
             [n \in reached \cup next |->
                IF n \in reached THEN dist[n]
                ELSE (CHOOSE s \in fresh : s[1] = n)[2]],
             next)

\* The walk of updateNodeDistance: dist holds the distances of the nodes
\* reached so far from the entry and frontier the nodes reached last; a node
\* reached over a front link is one resolution farther, a node reached over
\* a left or right link as far.
RECURSIVE WalkDistance(_, _, _)
WalkDistance(L, dist, frontier) ==
  LET reached == DOMAIN dist
      steps == UNION {{<<L.nodes[m].front, dist[m] + L.longitudinal_resolution_>>,
                       <<L.nodes[m].left, dist[m]>>,
                       <<L.nodes[m].right, dist[m]>>} : m \in frontier}
      fresh == {s \in steps : s[1] /= NoNode /\ s[1] \notin reached}
      next  == {s[1] : s \in fresh}
  IN  IF next = {} THEN dist
      ELSE WalkDistance(L,
             [n \in reached \cup next |->
                IF n \in reached THEN dist[n]
                ELSE (CHOOSE s \in fresh : s[1] = n)[2]],
             next)

\* Lattice::updateNodeDistance
updateNodeDistance(L) ==
  LET dist == WalkDistance(L, [n \in {L.lattice_entry_} |-> 0], {L.lattice_entry_})
  IN  [L EXCEPT !.nodes =
         [n \in DOMAIN @ |->
            IF n \in DOMAIN dist THEN [@[n] EXCEPT !.distance = dist[n]]
            ELSE @[n]]]

\* Lattice::Lattice(start, range, longitudinal_resolution, router)
Construct(w, start, range, longitudinal_resolution) ==
  LET L0 == AddNode(
              [router_ |-> w,
               lattice_entry_ |-> start.id,
               lattice_exit_  |-> start.id,
               nodes |-> <<>>,
               waypoint_to_node_table_ |-> <<>>,
               roadlane_to_waypoints_table_ |-> <<>>,
               longitudinal_resolution_ |-> longitudinal_resolution],
              start, 0)
      L1 == ExtendLoop([lat |-> L0, queue |-> <<start.id>>], range)
  IN  updateNodeDistance([L1 EXCEPT !.lattice_exit_ = Farthest(L1)])

\* Mutant of extend: the range is taken as the length to add to the lattice.
extendByIncrement(L, range) ==
  IF range <= 0 THEN L
  ELSE LET frontier == {n \in DOMAIN L.nodes :
                          /\ L.nodes[n].distance = MaxDistance(L.nodes)
                          /\ L.nodes[n].front = NoNode}
           L1 == ExtendLoop([lat |-> L, queue |-> Sorted(frontier)],
                            Range(L) + range)
       IN  updateNodeDistance([L1 EXCEPT !.lattice_exit_ = Farthest(L1)])

\* Lattice::extend(range)
extend(L, range) ==
  IF range <= Range(L) THEN L
  ELSE LET frontier == {n \in DOMAIN L.nodes :
                          /\ L.nodes[n].distance = MaxDistance(L.nodes)
                          /\ L.nodes[n].front = NoNode}
           L1 == ExtendLoop([lat |-> L, queue |-> Sorted(frontier)], range)
       IN  updateNodeDistance([L1 EXCEPT !.lattice_exit_ = Farthest(L1)])

\* The node is unlinked from its back, left and right neighbours, taken out
\* of both tables and destroyed.
RemoveNode(L, n) ==
  LET node == L.nodes[n]
      unlinked ==
        [m \in DOMAIN L.nodes \ {n} |->
           [L.nodes[m] EXCEPT
              !.front = IF m = node.back  /\ @ = n THEN NoNode ELSE @,
              !.right = IF m = node.left  /\ @ = n THEN NoNode ELSE @,
              !.left  = IF m = node.right /\ @ = n THEN NoNode ELSE @]]
  IN  [L EXCEPT
         !.nodes = unlinked,
         !.waypoint_to_node_table_ = reduceWaypointToNodeTable(@, n),
         !.roadlane_to_waypoints_table_ =
            reduceRoadlaneToWaypointsTable(@, node.waypoint)]

\* The node shorten() removes next: the farthest of the nodes beyond the
\* limit, or NoNode when there is none.
NextRemoved(L, limit) ==
  LET beyond == {n \in DOMAIN L.nodes : L.nodes[n].distance > limit}
  IN  IF beyond = {} THEN NoNode
      ELSE CHOOSE n \in beyond :
             \A m \in beyond :
               \/ L.nodes[m].distance < L.nodes[n].distance
               \/ (L.nodes[m].distance = L.nodes[n].distance /\ m <= n)

\* The nodes beyond the limit are removed, the farthest first.
RECURSIVE RemoveBeyond(_, _)
RemoveBeyond(L, limit) ==
  LET n == NextRemoved(L, limit)
  IN  IF n = NoNode THEN L
      ELSE RemoveBeyond(RemoveNode(L, n), limit)

\* Mutant of shorten: the exit is left where it was.
shortenKeepExit(L, range) ==
  IF range >= Range(L) THEN L
  ELSE RemoveBeyond(L, L.nodes[L.lattice_entry_].distance + range)

\* Lattice::shorten(range)
shorten(L, range) ==
  IF range >= Range(L) THEN L
  ELSE LET L1 == RemoveBeyond(L, L.nodes[L.lattice_entry_].distance + range)
       IN  updateNodeDistance([L1 EXCEPT !.lattice_exit_ = Farthest(L1)])

\* Mutant of shift: the lattice is extended and never shortened.
shiftNoShorten(L, movement) ==
  LET range == Range(L) IN extend(L, range + movement)

\* Lattice::shift(movement)
shift(L, movement) ==
  LET range == Range(L)
  IN  shorten(extend(L, range + movement), range)

\* The distance between two waypoints of one lane.
Distance(a, b) == IF a.x >= b.x THEN a.x - b.x ELSE b.x - a.x

\* The scan of closestNode over the waypoints of a bucket: best is the
\* nearest node found so far, and of two equally near the one found first.
RECURSIVE ClosestScan(_, _, _, _, _)
ClosestScan(L, waypoints, i, waypoint, best) ==
  IF i > Len(waypoints) THEN best
  ELSE LET n == L.waypoint_to_node_table_[waypoints[i]]
       IN  ClosestScan(L, waypoints, i + 1, waypoint,
             IF \/ best = NoNode
                \/ Distance(L.nodes[n].waypoint, waypoint) <
                     Distance(L.nodes[best].waypoint, waypoint)
               THEN n ELSE best)

\* Lattice::closestNode(waypoint, tolerance)
closestNode(L, waypoint, tolerance) ==
  LET roadlane_id == hashCombine(waypoint.road, waypoint.lane)
  IN  IF roadlane_id \notin DOMAIN L.roadlane_to_waypoints_table_ THEN NoNode
      ELSE LET best == ClosestScan(L, L.roadlane_to_waypoints_table_[roadlane_id],
                                   1, waypoint, NoNode)
           IN  IF best /= NoNode /\
                  Distance(L.nodes[best].waypoint, waypoint) <= tolerance
                 THEN best ELSE NoNode

\* The tolerance with which the relative queries resolve their query point.
QueryTolerance == 1

\* Mutant of WalkFront: where the front link is missing the walk ends with
\* the node it has reached.
RECURSIVE WalkFrontClamped(_, _, _, _)
WalkFrontClamped(L, n, current_range, range) ==
  IF n = NoNode THEN NoNode
  ELSE IF current_range >= range \/ L.nodes[n].front = NoNode THEN n
  ELSE WalkFrontClamped(L, L.nodes[n].front,
                        current_range + L.longitudinal_resolution_, range)

\* The walk of a relative query over front links: one resolution is added
\* per link until the range is met; a missing link ends it with no node.
RECURSIVE WalkFront(_, _, _, _)
WalkFront(L, n, current_range, range) ==
  IF n = NoNode THEN NoNode
  ELSE IF current_range >= range THEN n
  ELSE WalkFront(L, L.nodes[n].front,
                 current_range + L.longitudinal_resolution_, range)

\* The same walk over back links.
RECURSIVE WalkBack(_, _, _, _)
WalkBack(L, n, current_range, range) ==
  IF n = NoNode THEN NoNode
  ELSE IF current_range >= range THEN n
  ELSE WalkBack(L, L.nodes[n].back,
                current_range + L.longitudinal_resolution_, range)

\* node->left() and node->right() of a node that may be null.
Left(L, n)  == IF n = NoNode THEN NoNode ELSE L.nodes[n].left
Right(L, n) == IF n = NoNode THEN NoNode ELSE L.nodes[n].right

\* Lattice::front(query, range)
front(L, query, range) ==
  WalkFront(L, closestNode(L, query, QueryTolerance), 0, range)

\* Lattice::back(query, range)
back(L, query, range) ==
  WalkBack(L, closestNode(L, query, QueryTolerance), 0, range)

\* Lattice::leftFront(query, range): to the left first, then to the front.
leftFront(L, query, range) ==
  WalkFront(L, Left(L, closestNode(L, query, QueryTolerance)), 0, range)

\* Mutant of frontLeft: the walk to the front is left out.
frontLeftLateralOnly(L, query, range) ==
  Left(L, closestNode(L, query, QueryTolerance))

\* Lattice::frontLeft(query, range): to the front first, then to the left.
frontLeft(L, query, range) == Left(L, front(L, query, range))

\* Lattice::leftBack(query, range)
leftBack(L, query, range) ==
  WalkBack(L, Left(L, closestNode(L, query, QueryTolerance)), 0, range)

\* Lattice::backLeft(query, range)
backLeft(L, query, range) == Left(L, back(L, query, range))

\* Lattice::rightFront(query, range)
rightFront(L, query, range) ==
  WalkFront(L, Right(L, closestNode(L, query, QueryTolerance)), 0, range)

\* Lattice::frontRight(query, range)
frontRight(L, query, range) == Right(L, front(L, query, range))

\* Lattice::rightBack(query, range)
rightBack(L, query, range) ==
  WalkBack(L, Right(L, closestNode(L, query, QueryTolerance)), 0, range)

\* Lattice::backRight(query, range)
backRight(L, query, range) == Right(L, back(L, query, range))

(***************************************************************************)
(* The caller of the router.                                               *)
(***************************************************************************)
\* Roads the caller asks about: every road of the loop and two that are not
\* on it.
OffRoute == {1, 999}
RoadIds  == {road_sequence_[i] : i \in 1..Len(road_sequence_)} \cup OffRoute

\* Roads of the waypoints handed to the router: the last road of the loop,
\* the first two, and one that is not on the loop.
WaypointRoads == <<659, 47, 558, 999>>

\* Two waypoints on each of these roads.
Waypoints ==
  {[id |-> 10 * i + k, road |-> WaypointRoads[i], lane |-> 1, x |-> 0] :
     i \in 1..Len(WaypointRoads), k \in 1..2}

\* What GetNext() may return: any list of up to MaxCand waypoints.
CandidateLists == UNION {[1..n -> Waypoints] : n \in 0..MaxCand}

NoCall     == [op |-> "none"]
NoWaypoint == [id |-> 0, road |-> 0, lane |-> 0, x |-> 0]

RoadCall(op, road) ==
  [op |-> op, road |-> road, waypoint |-> NoWaypoint, distance |-> 0,
   candidates |-> <<>>]

WaypointCall(op, waypoint, distance, candidates) ==
  [op |-> op, road |-> 0, waypoint |-> waypoint, distance |-> distance,
   candidates |-> candidates]

\* No operation yet, and no lattice before it.
NoOp      == [op |-> "none", arg |-> 0]
NoLattice == [nodes |-> <<>>]
NoQuery   == [op |-> "none"]
NoAnswer  == [node |-> NoNode]


\* The router is constructed; its caller holds one lattice that it leaves
\* alone.
RouterInit ==
  /\ call = NoCall
  /\ result = Nullptr
  /\ origin = NoCall
  /\ lattice = Construct(1, WaypointAt(0, 1), 1, 1)
  /\ last = NoOp
  /\ prev = NoLattice
  /\ last2 = NoOp
  /\ prev2 = NoLattice
  /\ asked = NoQuery
  /\ answer = NoAnswer

\* The caller asks for the road after an arbitrary road.
CallNextRoad ==
  \E road \in RoadIds :
    /\ call = NoCall
    /\ call' = RoadCall("nextRoad", road)
    /\ result' = nextRoad(road)
    /\ origin' = NoCall
    /\ UNCHANGED lvars

\* The caller asks for the road before an arbitrary road.
CallPrevRoad ==
  \E road \in RoadIds :
    /\ call = NoCall
    /\ call' = RoadCall("prevRoad", road)
    /\ result' = prevRoad(road)
    /\ origin' = NoCall
    /\ UNCHANGED lvars

\* The caller feeds the road just returned to nextRoad.
ChainNextRoad ==
  /\ call.op \in {"nextRoad", "prevRoad"}
  /\ origin = NoCall
  /\ result.tag = "value"
  /\ call' = RoadCall("nextRoad", result.road)
  /\ result' = nextRoad(result.road)
  /\ origin' = call
  /\ UNCHANGED lvars

\* The caller feeds the road just returned to prevRoad.
ChainPrevRoad ==
  /\ call.op \in {"nextRoad", "prevRoad"}
  /\ origin = NoCall
  /\ result.tag = "value"
  /\ call' = RoadCall("prevRoad", result.road)
  /\ result' = prevRoad(result.road)
  /\ origin' = call
  /\ UNCHANGED lvars

CallFrontWaypoint ==
  \E waypoint \in Waypoints, distance \in -1..MaxDist,
     candidates \in CandidateLists :
    /\ call = NoCall
    /\ call' = WaypointCall("frontWaypoint", waypoint, distance, candidates)
    /\ result' = frontWaypoint(waypoint, distance, candidates)
    /\ origin' = NoCall
    /\ UNCHANGED lvars

CallWaypointOnRoute ==
  \E waypoint \in Waypoints, candidates \in CandidateLists :
    /\ call = NoCall
    /\ call' = WaypointCall("waypointOnRoute", waypoint, 0, candidates)
    /\ result' = waypointOnRoute(waypoint, candidates)
    /\ origin' = NoCall
    /\ UNCHANGED lvars

\* The caller has used the result and is ready for its next call.
Return ==
  /\ call /= NoCall
  /\ call' = NoCall
  /\ result' = Nullptr
  /\ origin' = NoCall
  /\ UNCHANGED lvars

RouterNext ==
  \/ Return
  \/ CallNextRoad
  \/ CallPrevRoad
  \/ ChainNextRoad
  \/ ChainPrevRoad
  \/ CallFrontWaypoint
  \/ CallWaypointOnRoute

RouterSpec == RouterInit /\ [][RouterNext]_vars

(***************************************************************************)
(* The owner of a lattice: it constructs the lattice and then extends,     *)
(* shortens and shifts it.                                                 *)
(***************************************************************************)
\* A lattice has been constructed from some start waypoint of some world.
Init ==
  /\ call = NoCall
  /\ result = Nullptr
  /\ origin = NoCall
  /\ \E w \in Worlds, l \in 1..NumLanes,
        range \in 1..MaxRange, resolution \in 1..MaxResolution :
       /\ LaneExists(w, StartPos, l)
       /\ lattice = Construct(w, WaypointAt(StartPos, l), range, resolution)
       /\ last = [op |-> "construct", arg |-> range]
  /\ prev = NoLattice
  /\ last2 = NoOp
  /\ prev2 = NoLattice
  /\ asked = NoQuery
  /\ answer = NoAnswer

\* The observer of the lattice holds no record of an earlier operation and
\* no answer of a query.
Idle == prev = NoLattice /\ asked = NoQuery

\* The last operation was an extend() that nothing preceded in the record.
AfterExtend == last.op = "extend" /\ prev /= NoLattice /\ prev2 = NoLattice

\* The operation is recorded together with the lattice it was applied to;
\* for a shorten() that follows an extend(), the extend() and the lattice it
\* was applied to are kept as well.
Record(op, arg) ==
  /\ last' = [op |-> op, arg |-> arg]
  /\ prev' = lattice
  /\ last2' = IF Idle THEN NoOp ELSE last
  /\ prev2' = prev
  /\ UNCHANGED qvars

Extend ==
  \E range \in 0..MaxRange :
    /\ Idle
    /\ lattice' = extend(lattice, range)
    /\ Record("extend", range)
    /\ UNCHANGED rvars

Shorten ==
  \E range \in 0..MaxRange :
    /\ Idle \/ AfterExtend
    /\ lattice' = shorten(lattice, range)
    /\ Record("shorten", range)
    /\ UNCHANGED rvars

Shift ==
  \E movement \in 1..MaxShift :
    /\ Idle
    /\ lattice' = shift(lattice, movement)
    /\ Record("shift", movement)
    /\ UNCHANGED rvars

\* The observer drops its record and the answer of its query; the lattice
\* is as it was.
Forget ==
  /\ ~Idle
  /\ last' = NoOp
  /\ prev' = NoLattice
  /\ last2' = NoOp
  /\ prev2' = NoLattice
  /\ asked' = NoQuery
  /\ answer' = NoAnswer
  /\ UNCHANGED <<lattice, rvars>>

Next ==
  \/ Extend
  \/ Shorten
  \/ Shift
  \/ Forget

Spec == Init /\ [][Next]_vars

(***************************************************************************)
(* The caller of the queries: between the operations of the owner it asks  *)
(* the lattice about a waypoint of the road network.  The queries are      *)
(* const member functions: they leave the lattice as it is.                *)
(***************************************************************************)
\* The ten relative queries.
RelativeQueries ==
  {"front", "back", "leftFront", "frontLeft", "leftBack", "backLeft",
   "rightFront", "frontRight", "rightBack", "backRight"}

\* What the ten relative queries return for one query point and one range.
Relative(L, waypoint, range) ==
  [front      |-> front(L, waypoint, range),
   back       |-> back(L, waypoint, range),
   leftFront  |-> leftFront(L, waypoint, range),
   frontLeft  |-> frontLeft(L, waypoint, range),
   leftBack   |-> leftBack(L, waypoint, range),
   backLeft   |-> backLeft(L, waypoint, range),
   rightFront |-> rightFront(L, waypoint, range),
   frontRight |-> frontRight(L, waypoint, range),
   rightBack  |-> rightBack(L, waypoint, range),
   backRight  |-> backRight(L, waypoint, range)]

\* The caller asks the ten relative queries about one waypoint of the
\* lattice's road network and one range.
QueryRelative ==
  \E p \in 0..LastPos, l \in 1..NumLanes, range \in 0..MaxRange :
    /\ Idle
    /\ LaneExists(lattice.router_, p, l)
    /\ asked' = [op |-> "relative", waypoint |-> WaypointAt(p, l),
                 range |-> range]
    /\ answer' = Relative(lattice, WaypointAt(p, l), range)
    /\ UNCHANGED <<lattice, last, prev, last2, prev2, rvars>>

\* The caller asks for the node closest to a waypoint.
QueryClosestNode ==
  \E p \in 0..LastPos, l \in 1..NumLanes, tolerance \in 0..MaxTolerance :
    /\ Idle
    /\ LaneExists(lattice.router_, p, l)
    /\ asked' = [op |-> "closestNode", waypoint |-> WaypointAt(p, l),
                 tolerance |-> tolerance]
    /\ answer' = [node |-> closestNode(lattice, WaypointAt(p, l), tolerance)]
    /\ UNCHANGED <<lattice, last, prev, last2, prev2, rvars>>

QueryNext ==
  \/ Extend
  \/ Shorten
  \/ Shift
  \/ Forget
  \/ QueryRelative
  \/ QueryClosestNode

QuerySpec == Init /\ [][QueryNext]_vars

(***************************************************************************)
(* NoTrafficNode::spawnVehicles: a lattice is built from the start         *)
(* waypoint and the ego vehicle is placed halfway along it (100 and 50.0   *)
(* in the node; the model scales both).                                    *)
(***************************************************************************)
\* What waypoint_lattice->front(...)->waypoint() and the statements after it
\* come to.  The arrow is applied to the shared pointer front() returned
\* before anything is tested: on a null pointer that is undefined
\* behaviour, which a build turns into a failed BOOST_ASSERT of
\* shared_ptr::operator->, into a read through the null pointer that stops
\* the process, or into a read of whatever lies there, null (the test of
\* ego_waypoint then throws) or not (the node goes on to spawn).  On a node,
\* the waypoint is the node's and spawnEgoVehicle decides.
SpawnOutcomes(node) ==
  IF node = NoNode
    THEN {"assertion_failed", "segmentation_fault",
          "runtime_error_ego_waypoint", "ego_spawned",
          "runtime_error_spawn"}
    ELSE {"ego_spawned", "runtime_error_spawn"}

\* NoTrafficNode::spawnVehicles, which the node calls once while it
\* initializes.
SpawnVehicles ==
  \E w \in Worlds, p \in 0..LastPos, l \in 1..NumLanes,
     range \in 1..MaxRange, resolution \in 1..MaxResolution :
    /\ Idle
    /\ last = NoOp
    /\ LaneExists(w, p, l)
    /\ LET start_waypoint   == WaypointAt(p, l)
           waypoint_lattice == Construct(w, start_waypoint, range, resolution)
           node == front(waypoint_lattice, start_waypoint, range \div 2)
       IN  /\ lattice' = waypoint_lattice
           /\ asked' = [op |-> "spawnVehicles", waypoint |-> start_waypoint,
                        range |-> range \div 2]
           /\ \E outcome \in SpawnOutcomes(node) :
                answer' = [node |-> node, dereferenced |-> TRUE,
                           outcome |-> outcome]
           /\ last' = [op |-> "construct", arg |-> range]
    /\ UNCHANGED <<prev, last2, prev2, rvars>>

\* spawnVehicles has returned, thrown or stopped the process.
SpawnReturn ==
  /\ asked.op = "spawnVehicles"
  /\ asked' = NoQuery
  /\ answer' = NoAnswer
  /\ UNCHANGED <<lattice, last, prev, last2, prev2, rvars>>

SpawnNext ==
  \/ SpawnVehicles
  \/ SpawnReturn

SpawnSpec == RouterInit /\ [][SpawnNext]_vars

(***************************************************************************)
(* Properties of the router.                                               *)
(***************************************************************************)
\* The road is one of the loop.
InLoop(road) == \E i \in 1..NumRoads : road_sequence_[i] = road

\* The road that follows / precedes position i (counted from 0) on the loop.
CyclicNext(i) == road_sequence_[((i + 1) % NumRoads) + 1]
CyclicPrev(i) == road_sequence_[((i - 1) % NumRoads) + 1]

\* C5: the roads of the loop are distinct and, for every position i of the
\* loop, nextRoad(S[i]) is S[(i+1) mod n] and prevRoad(S[i]) is S[(i-1) mod n];
\* for the built-in loop nextRoad(47) = 558, prevRoad(558) = 47,
\* nextRoad(659) = 47 and prevRoad(47) = 659.
C5_NextPrevFollowCycle ==
  /\ \A i, j \in 1..NumRoads : road_sequence_[i] = road_sequence_[j] => i = j
  /\ \A i \in 0..(NumRoads - 1) :
       /\ (call.op = "nextRoad" /\ call.road = road_sequence_[i + 1])
            => result = Value(CyclicNext(i))
       /\ (call.op = "prevRoad" /\ call.road = road_sequence_[i + 1])
            => result = Value(CyclicPrev(i))
  /\ (call.op = "nextRoad" /\ call.road = 47)  => result = Value(558)
  /\ (call.op = "prevRoad" /\ call.road = 558) => result = Value(47)
  /\ (call.op = "nextRoad" /\ call.road = 659) => result = Value(47)
  /\ (call.op = "prevRoad" /\ call.road = 47)  => result = Value(659)

\* nextRoad has been asked for the road after the last road of the loop.
C5_Witness ==
  /\ call.op = "nextRoad"
  /\ call.road = road_sequence_[NumRoads]
  /\ result = Value(road_sequence_[1])

\* C6: feeding the road returned by prevRoad(s) to nextRoad gives s back, and
\* feeding the road returned by nextRoad(s) to prevRoad gives s back, for
\* every road s of the loop.
C6_NextPrevInverse ==
  /\ (origin /= NoCall /\ origin.op = "prevRoad" /\ call.op = "nextRoad"
        /\ InLoop(origin.road)) => result = Value(origin.road)
  /\ (origin /= NoCall /\ origin.op = "nextRoad" /\ call.op = "prevRoad"
        /\ InLoop(origin.road)) => result = Value(origin.road)

\* prevRoad(47) wrapped to 659, and nextRoad(659) has been asked.
C6_Witness ==
  /\ origin /= NoCall
  /\ origin.op = "prevRoad"
  /\ origin.road = road_sequence_[1]
  /\ call.op = "nextRoad"
  /\ call.road = road_sequence_[NumRoads]
  /\ result.tag = "value"

\* C7: for a road that is not on the loop, nextRoad and prevRoad throw
\* std::out_of_range; they return neither a road nor an absent value.
C7_NotOnRouteThrows ==
  (call.op \in {"nextRoad", "prevRoad"} /\ ~InLoop(call.road))
    => result = OutOfRange

\* prevRoad has been asked about a road that is not on the loop.
C7_Witness ==
  /\ call.op = "prevRoad"
  /\ call.road \in OffRoute
  /\ result.tag = "out_of_range"

\* Positions of the candidates of the last call that lie on the given road.
CandidatesOn(road) ==
  {i \in 1..Len(call.candidates) : call.candidates[i].road = road}

\* The road that follows a road of the loop.
RoadAfter(road) ==
  CyclicNext((CHOOSE i \in 1..NumRoads : road_sequence_[i] = road) - 1)

\* What the specification of advance promises for a given next road: a
\* candidate on the waypoint's own road if there is one, else a candidate on
\* the next road if there is one, else absent.
AdvanceSelects(next_roads) ==
  LET same == CandidatesOn(call.waypoint.road)
      next == UNION {CandidatesOn(r) : r \in next_roads}
  IN  IF same /= {}
        THEN /\ result.tag = "waypoint"
             /\ \E i \in same : result.waypoint = call.candidates[i]
      ELSE IF next /= {}
        THEN /\ result.tag = "waypoint"
             /\ \E i \in next : result.waypoint = call.candidates[i]
      ELSE result = Nullptr

\* C8 as stated: with a positive distance frontWaypoint always selects among
\* the candidates (same road first, then next road, then absent), whatever
\* the road of the given waypoint.
C8_AsStated ==
  (call.op = "frontWaypoint" /\ call.distance > 0)
    => AdvanceSelects(IF InLoop(call.waypoint.road)
                        THEN {RoadAfter(call.waypoint.road)} ELSE {})

\* C8 (amended): with a positive distance and a waypoint whose road is on the
\* loop, frontWaypoint returns a candidate on the waypoint's own road if
\* there is one (whatever the order of the candidates), else a candidate on
\* the road that follows it on the loop if there is one, else nullptr, so a
\* returned waypoint is on the same or the following road; with a waypoint
\* whose road is not on the loop it throws std::out_of_range.
C8_SelectsOnRoute ==
  (call.op = "frontWaypoint" /\ call.distance > 0)
    => IF InLoop(call.waypoint.road)
         THEN /\ AdvanceSelects({RoadAfter(call.waypoint.road)})
              /\ result.tag = "waypoint" =>
                   result.waypoint.road \in
                     {call.waypoint.road, RoadAfter(call.waypoint.road)}
         ELSE result = OutOfRange

\* A candidate on the next road came first and one on the same road second,
\* and the one on the same road was returned.
C8_Witness ==
  /\ call.op = "frontWaypoint"
  /\ call.distance > 0
  /\ Len(call.candidates) = 2
  /\ call.waypoint.road = 659
  /\ call.candidates[1].road = 47
  /\ call.candidates[2].road = 659
  /\ result = Waypoint(call.candidates[2])

\* C9: with a distance of zero or less frontWaypoint throws
\* std::runtime_error, whatever the waypoint and the candidates.
C9_NonPositiveDistanceThrows ==
  (call.op = "frontWaypoint" /\ call.distance <= 0) => result = RuntimeError

\* frontWaypoint was called with distance 0 for a waypoint off the loop that
\* has a candidate on its own road.
C9_Witness ==
  /\ call.op = "frontWaypoint"
  /\ call.distance = 0
  /\ ~InLoop(call.waypoint.road)
  /\ CandidatesOn(call.waypoint.road) /= {}
  /\ result.tag = "runtime_error"

\* C10: waypointOnRoute returns the first candidate, in the order GetNext
\* gives them, whose road is on the loop, and nullptr exactly when no
\* candidate's road is on the loop; it never throws, also for a waypoint
\* whose own road is not on the loop.
C10_FirstCandidateOnRoute ==
  call.op = "waypointOnRoute" =>
    LET on == {i \in 1..Len(call.candidates) : InLoop(call.candidates[i].road)}
    IN  IF on = {} THEN result = Nullptr
        ELSE result =
               Waypoint(call.candidates[CHOOSE i \in on : \A j \in on : i <= j])

\* Two candidates on the loop were offered to a waypoint off the loop, and
\* the first was returned.
C10_Witness ==
  /\ call.op = "waypointOnRoute"
  /\ ~InLoop(call.waypoint.road)
  /\ Len(call.candidates) = 2
  /\ InLoop(call.candidates[1].road)
  /\ InLoop(call.candidates[2].road)
  /\ call.candidates[1] /= call.candidates[2]
  /\ result = Waypoint(call.candidates[1])

\* C21: frontWaypoint(waypoint, distance) with distance > 0 for a waypoint
\* whose road is not in road_sequence_ throws the std::out_of_range of
\* nextRoad, also when a candidate is on the waypoint's own road; a
\* waypoint or nullptr is returned only for a waypoint whose road is in
\* road_sequence_.
C21_OffRouteWaypointThrows ==
  call.op = "frontWaypoint" =>
    /\ (call.distance > 0 /\ ~InLoop(call.waypoint.road)) => result = OutOfRange
    /\ result.tag \in {"waypoint", "nullptr"} => InLoop(call.waypoint.road)

\* frontWaypoint() threw for a waypoint off the loop although the first
\* candidate is on the waypoint's own road.
C21_Witness ==
  /\ call.op = "frontWaypoint"
  /\ call.distance > 0
  /\ ~InLoop(call.waypoint.road)
  /\ Len(call.candidates) >= 1
  /\ call.candidates[1].road = call.waypoint.road
  /\ result = OutOfRange

(***************************************************************************)
(* Properties of the lattice.                                              *)
(***************************************************************************)
\* C1: in every lattice reached by construction, extend, shorten and shift,
\* for all nodes a and b of the lattice, b is the front of a exactly when a
\* is the back of b, and b is the left of a exactly when a is the right of b.
C1_NeighborSymmetry ==
  \A a, b \in DOMAIN lattice.nodes :
    /\ (lattice.nodes[a].front = b) <=> (lattice.nodes[b].back = a)
    /\ (lattice.nodes[a].left = b) <=> (lattice.nodes[b].right = a)

\* An extend() added nodes and the shorten() after it removed nodes, and the
\* lattice that is left has front and left links.
C1_Witness ==
  /\ last.op = "shorten"
  /\ last2.op = "extend"
  /\ DOMAIN prev.nodes /= DOMAIN prev2.nodes
  /\ DOMAIN lattice.nodes /= DOMAIN prev.nodes
  /\ \E a, b \in DOMAIN lattice.nodes : lattice.nodes[a].front = b
  /\ \E a, b \in DOMAIN lattice.nodes : lattice.nodes[a].left = b

\* C2: shift(D) with 0 < D < R on a lattice of range R leaves the range at R,
\* whatever operations (other shifts included) produced that lattice.
C2_ShiftKeepsRange ==
  (last.op = "shift" /\ 0 < last.arg /\ last.arg < Range(prev))
    => Range(lattice) = Range(prev)

\* A lattice of range MaxRange with room ahead was shifted by at least one
\* resolution.
C2_Witness ==
  /\ last.op = "shift"
  /\ Range(prev) = MaxRange
  /\ last.arg >= prev.longitudinal_resolution_
  /\ last.arg < Range(prev)
  /\ Range(lattice) = MaxRange

\* The waypoints of a (road, lane) bucket; a bucket that is not in the table
\* holds none.
Bucket(L, roadlane_id) ==
  IF roadlane_id \in DOMAIN L.roadlane_to_waypoints_table_
    THEN L.roadlane_to_waypoints_table_[roadlane_id]
    ELSE <<>>

\* Two lattices have the same nodes (with the same waypoints, neighbours and
\* distances) and the same contents in both tables.
SameLattice(A, B) ==
  /\ A.nodes = B.nodes
  /\ A.waypoint_to_node_table_ = B.waypoint_to_node_table_
  /\ \A roadlane_id \in DOMAIN A.roadlane_to_waypoints_table_ \cup
                        DOMAIN B.roadlane_to_waypoints_table_ :
       Bucket(A, roadlane_id) = Bucket(B, roadlane_id)

RECURSIVE HopFront(_, _, _)
HopFront(L, n, k) ==
  IF k = 0 \/ n = NoNode THEN n
  ELSE HopFront(L, L.nodes[n].front, k - 1)

\* C4: shift(D) with D > 0 slides the window forward: afterwards the entry
\* is the node that lay D ahead of the previous entry, and the range is as
\* before.  (Stated for a D that is a multiple of the resolution and smaller
\* than the range, so that a node lay D ahead of the entry.)
C4_ShiftAdvancesEntry ==
  (/\ last.op = "shift"
   /\ last.arg > 0
   /\ last.arg < Range(prev)
   /\ last.arg % prev.longitudinal_resolution_ = 0)
    => /\ lattice.lattice_entry_ =
            HopFront(prev, prev.lattice_entry_,
                     last.arg \div prev.longitudinal_resolution_)
       /\ Range(lattice) = Range(prev)

\* C11: extend(r) with r no larger than the current range and shorten(r)
\* with r no smaller than the current range change nothing: the nodes with
\* their neighbours and distances, the entry, the exit and both tables are
\* as before the call.
C11_ResizeNoOp ==
  (\/ (last.op = "extend" /\ last.arg <= Range(prev))
   \/ (last.op = "shorten" /\ last.arg >= Range(prev)))
    => lattice = prev

\* An extend() to less than the range of a lattice with several nodes was
\* followed by a shorten() to more than its range.
C11_Witness ==
  /\ last2.op = "extend"
  /\ 0 < last2.arg
  /\ last2.arg < Range(prev2)
  /\ last.op = "shorten"
  /\ last.arg > Range(prev)
  /\ prev = prev2
  /\ lattice = prev

\* The node reached from n over k back links, or NoNode.
RECURSIVE HopBack(_, _, _)
HopBack(L, n, k) ==
  IF k = 0 \/ n = NoNode THEN n
  ELSE HopBack(L, L.nodes[n].back, k - 1)

\* The least number of links whose length adds up to the range.
Hops(L, range) ==
  (range + L.longitudinal_resolution_ - 1) \div L.longitudinal_resolution_

\* The node the relative queries resolve the query point to.
Resolved == closestNode(lattice, asked.waypoint, QueryTolerance)

\* The k + 1 nodes from the resolved node to the front (to the back) are
\* there and each has a left (a right) neighbour.
CoveredFront(side) ==
  \A i \in 0..Hops(lattice, asked.range) :
    LET n == HopFront(lattice, Resolved, i)
    IN  n /= NoNode /\
        (IF side = "left" THEN Left(lattice, n) ELSE Right(lattice, n)) /= NoNode
CoveredBack(side) ==
  \A i \in 0..Hops(lattice, asked.range) :
    LET n == HopBack(lattice, Resolved, i)
    IN  n /= NoNode /\
        (IF side = "left" THEN Left(lattice, n) ELSE Right(lattice, n)) /= NoNode

\* Two answers are the same node unless one of them is nullptr.
AgreeUnlessAbsent(a, b) == (a /= NoNode /\ b /= NoNode) => a = b

\* The neighbours on that side of the k + 1 nodes from the resolved node to
\* the front (to the back) are joined by front (back) links, one to the
\* next.
LinkedFront(side) ==
  /\ CoveredFront(side)
  /\ \A i \in 1..Hops(lattice, asked.range) :
       LET a == HopFront(lattice, Resolved, i - 1)
           b == HopFront(lattice, Resolved, i)
       IN  IF side = "left"
             THEN lattice.nodes[lattice.nodes[a].left].front = lattice.nodes[b].left
             ELSE lattice.nodes[lattice.nodes[a].right].front = lattice.nodes[b].right
LinkedBack(side) ==
  /\ CoveredBack(side)
  /\ \A i \in 1..Hops(lattice, asked.range) :
       LET a == HopBack(lattice, Resolved, i - 1)
           b == HopBack(lattice, Resolved, i)
       IN  IF side = "left"
             THEN lattice.nodes[lattice.nodes[a].left].back = lattice.nodes[b].left
             ELSE lattice.nodes[lattice.nodes[a].right].back = lattice.nodes[b].right

\* C12 as stated: for one query point and one range, leftFront and
\* frontLeft return the same node unless one of them returns nullptr, and so
\* do rightFront and frontRight, leftBack and backLeft, rightBack and
\* backRight; when every node of the traversed span has a neighbour on that
\* side, the two always agree.
C12_AsStated ==
  asked.op = "relative" =>
    /\ AgreeUnlessAbsent(answer.leftFront, answer.frontLeft)
    /\ AgreeUnlessAbsent(answer.rightFront, answer.frontRight)
    /\ AgreeUnlessAbsent(answer.leftBack, answer.backLeft)
    /\ AgreeUnlessAbsent(answer.rightBack, answer.backRight)
    /\ CoveredFront("left") => answer.leftFront = answer.frontLeft
    /\ CoveredFront("right") => answer.rightFront = answer.frontRight
    /\ CoveredBack("left") => answer.leftBack = answer.backLeft
    /\ CoveredBack("right") => answer.rightBack = answer.backRight

\* C12, amended: for one query point and one range, leftFront and frontLeft
\* return the same node unless one of them returns nullptr, and so do
\* rightFront and frontRight, leftBack and backLeft, rightBack and
\* backRight; when every node of the traversed span has a neighbour on that
\* side and these neighbours are joined by front (back) links, one to the
\* next, the two return the same node and not nullptr.
C12_LateralOrderAgrees ==
  asked.op = "relative" =>
    /\ AgreeUnlessAbsent(answer.leftFront, answer.frontLeft)
    /\ AgreeUnlessAbsent(answer.rightFront, answer.frontRight)
    /\ AgreeUnlessAbsent(answer.leftBack, answer.backLeft)
    /\ AgreeUnlessAbsent(answer.rightBack, answer.backRight)
    /\ LinkedFront("left") =>
         (answer.leftFront = answer.frontLeft /\ answer.leftFront /= NoNode)
    /\ LinkedFront("right") =>
         (answer.rightFront = answer.frontRight /\ answer.rightFront /= NoNode)
    /\ LinkedBack("left") =>
         (answer.leftBack = answer.backLeft /\ answer.leftBack /= NoNode)
    /\ LinkedBack("right") =>
         (answer.rightBack = answer.backRight /\ answer.rightBack /= NoNode)

\* A query two links to the front found the same node both ways on the
\* left, a node that is neither the resolved node nor its left neighbour.
C12_Witness ==
  /\ asked.op = "relative"
  /\ Hops(lattice, asked.range) >= 2
  /\ LinkedFront("left")
  /\ answer.leftFront /= NoNode
  /\ answer.leftFront = answer.frontLeft
  /\ answer.leftFront /= Left(lattice, Resolved)

\* C13: front(q, r) for a query point that resolves to node N returns the
\* node reached from N over the least number k of front links with
\* k * resolution >= r, and nullptr when a front link is missing before
\* that; front(q, 0) for a query point that is the waypoint of a node
\* returns that node; and on a lattice over the full road network,
\* front(entry, r) for a multiple r of the resolution within the range
\* returns the node whose distance is r.
C13_FrontWalksLeastHops ==
  asked.op = "relative" =>
    /\ Resolved /= NoNode =>
         answer.front = HopFront(lattice, Resolved, Hops(lattice, asked.range))
    /\ (asked.range = 0 /\ asked.waypoint.id \in DOMAIN lattice.nodes) =>
         answer.front = asked.waypoint.id
    /\ (/\ lattice.router_ = 1
        /\ asked.waypoint = lattice.nodes[lattice.lattice_entry_].waypoint
        /\ asked.range % lattice.longitudinal_resolution_ = 0
        /\ asked.range <= Range(lattice)) =>
         /\ answer.front /= NoNode
         /\ lattice.nodes[answer.front].distance = asked.range

\* front() from the entry of a lattice over the full road network, with half
\* the range of the lattice, returned a node two or more links ahead.
C13_Witness ==
  /\ asked.op = "relative"
  /\ lattice.router_ = 1
  /\ asked.waypoint = lattice.nodes[lattice.lattice_entry_].waypoint
  /\ asked.range + asked.range = Range(lattice)
  /\ Hops(lattice, asked.range) >= 2
  /\ answer.front /= NoNode
  /\ lattice.nodes[answer.front].distance = asked.range

\* The nodes of the lattice on the road and lane of a waypoint.
OnRoadLane(L, waypoint) ==
  {n \in DOMAIN L.nodes :
     /\ L.nodes[n].waypoint.road = waypoint.road
     /\ L.nodes[n].waypoint.lane = waypoint.lane}

\* C14: closestNode(q, tolerance) returns a node of the lattice on q's road
\* and lane that is nearest to q when that node is within the tolerance,
\* and nullptr when the nearest such node is farther or when the bucket of
\* q's road and lane is missing or empty; it never returns a node of another
\* road or lane.
C14_ClosestNodeOfBucket ==
  asked.op = "closestNode" =>
    LET near    == OnRoadLane(lattice, asked.waypoint)
        Dist(n) == Distance(lattice.nodes[n].waypoint, asked.waypoint)
        nearest == {n \in near : \A m \in near : Dist(n) <= Dist(m)}
    IN  /\ IF \E n \in nearest : Dist(n) <= asked.tolerance
             THEN answer.node \in nearest
             ELSE answer.node = NoNode
        /\ Bucket(lattice, hashCombine(asked.waypoint.road,
                                      asked.waypoint.lane)) = <<>>
             => answer.node = NoNode
        /\ answer.node /= NoNode => answer.node \in near

\* The bucket of the query point holds two nodes, both within the
\* tolerance, and closestNode() returned the nearer one, which is the second
\* of the bucket.
C14_Witness ==
  /\ asked.op = "closestNode"
  /\ asked.tolerance >= 1
  /\ LET bucket == Bucket(lattice, hashCombine(asked.waypoint.road,
                                               asked.waypoint.lane))
     IN  /\ Len(bucket) = 2
         /\ answer.node = bucket[2]
         /\ Distance(lattice.nodes[bucket[1]].waypoint, asked.waypoint)
              <= asked.tolerance
  /\ lattice.nodes[answer.node].waypoint = asked.waypoint

\* No node on the road and lane of the query point is within the tolerance
\* of the relative queries.
Unmatched ==
  \A n \in OnRoadLane(lattice, asked.waypoint) :
    Distance(lattice.nodes[n].waypoint, asked.waypoint) > QueryTolerance

\* The range ahead of (behind) the resolved node ends beyond the exit
\* (before the entry) of the lattice.
FrontOutside ==
  /\ Resolved /= NoNode
  /\ lattice.nodes[Resolved].distance +
       Hops(lattice, asked.range) * lattice.longitudinal_resolution_
       > lattice.nodes[lattice.lattice_exit_].distance
BackOutside ==
  /\ Resolved /= NoNode
  /\ lattice.nodes[Resolved].distance -
       Hops(lattice, asked.range) * lattice.longitudinal_resolution_
       < lattice.nodes[lattice.lattice_entry_].distance

\* What holds of the answers of the relative queries: each is a node of
\* the lattice or nullptr (no exception leaves a query), all are nullptr for
\* an unmatched query point, and those whose target is outside the lattice
\* are nullptr.
AbsentOutside ==
  asked.op = "relative" =>
    /\ \A q \in RelativeQueries :
         answer[q] \in DOMAIN lattice.nodes \cup {NoNode}
    /\ Unmatched => \A q \in RelativeQueries : answer[q] = NoNode
    /\ FrontOutside =>
         \A q \in {"front", "leftFront", "frontLeft", "rightFront", "frontRight"} :
           answer[q] = NoNode
    /\ BackOutside =>
         \A q \in {"back", "leftBack", "backLeft", "rightBack", "backRight"} :
           answer[q] = NoNode

\* A step in which a query is asked.
Asks == asked' /= asked /\ asked'.op /= "none"

\* C15: every relative query (front, back, leftFront, frontLeft, leftBack,
\* backLeft, rightFront, frontRight, rightBack, backRight) whose target is
\* outside the range of the lattice or whose query point matches no node
\* within the tolerance returns nullptr and raises no exception; and no
\* query changes the lattice.
C15_QueriesAbsentAndPure ==
  /\ []AbsentOutside
  /\ [][Asks => lattice' = lattice]_vars

\* A query with a positive range at a node of a lattice with several nodes:
\* both the target ahead and the target behind are outside the lattice, and
\* every answer is nullptr.
C15_Witness ==
  /\ asked.op = "relative"
  /\ asked.range > 0
  /\ Range(lattice) > 0
  /\ FrontOutside
  /\ BackOutside
  /\ \A q \in RelativeQueries : answer[q] = NoNode

\* The nodes of the lattice on the lane of its entry.
SeedLane(L) ==
  {n \in DOMAIN L.nodes :
     L.nodes[n].waypoint.lane = L.nodes[L.lattice_entry_].waypoint.lane}

\* C16: a lattice constructed with range R and resolution D on the road
\* network without gaps has floor(R / D) + 1 nodes on the lane of its start
\* waypoint (exactly, which is within the one node the statement allows for
\* rounding), and after extend, shorten and shift as many as its range
\* then asks for; and in every lattice, after construction and after
\* extend, shorten and shift, the distances of two nodes joined by a front
\* link differ by exactly D.
C16_SeedLaneSpacing ==
  /\ (last.op = "construct" /\ lattice.router_ = 1) =>
       Cardinality(SeedLane(lattice)) =
         (last.arg \div lattice.longitudinal_resolution_) + 1
  /\ lattice.router_ = 1 =>
       Cardinality(SeedLane(lattice)) =
         (Range(lattice) \div lattice.longitudinal_resolution_) + 1
  /\ \A a \in DOMAIN lattice.nodes :
       lattice.nodes[a].front /= NoNode =>
         lattice.nodes[lattice.nodes[a].front].distance =
           lattice.nodes[a].distance + lattice.longitudinal_resolution_

\* A lattice on the road network without gaps was extended and then
\* shortened to a range that is no multiple of its resolution, and what is
\* left spans more than one road.
C16_Witness ==
  /\ last.op = "shorten"
  /\ last2.op = "extend"
  /\ lattice.router_ = 1
  /\ DOMAIN prev.nodes /= DOMAIN prev2.nodes
  /\ DOMAIN lattice.nodes /= DOMAIN prev.nodes
  /\ last.arg % lattice.longitudinal_resolution_ /= 0
  /\ \E a \in SeedLane(lattice) :
       /\ lattice.nodes[a].front /= NoNode
       /\ lattice.nodes[lattice.nodes[a].front].waypoint.road /=
            lattice.nodes[a].waypoint.road

C18_DistanceCountsHops ==
  LET entry == lattice.nodes[lattice.lattice_entry_]
  IN  /\ \A n \in DOMAIN lattice.nodes :
           /\ lattice.nodes[n].distance % lattice.longitudinal_resolution_ = 0
           /\ lattice.nodes[n].distance =
                lattice.nodes[n].waypoint.x - entry.waypoint.x
      /\ \A a, b \in DOMAIN lattice.nodes :
           (lattice.nodes[a].left = b \/ lattice.nodes[a].right = b) =>
             lattice.nodes[a].distance = lattice.nodes[b].distance

\* An extend() added nodes, among them one without a back link (its lane
\* begins there) that lies two or more links ahead of the entry.
C18_Witness ==
  /\ last.op = "extend"
  /\ \E n \in DOMAIN lattice.nodes \ DOMAIN prev.nodes :
       /\ lattice.nodes[n].back = NoNode
       /\ lattice.nodes[n].left /= NoNode \/ lattice.nodes[n].right /= NoNode
       /\ lattice.nodes[n].distance >= 2 * lattice.longitudinal_resolution_

\* The nodes shorten() removes from L, in the order in which it removes
\* them.
RECURSIVE RemovalOrder(_, _)
RemovalOrder(L, limit) ==
  LET n == NextRemoved(L, limit)
  IN  IF n = NoNode THEN <<>>
      ELSE <<n>> \o RemovalOrder(RemoveNode(L, n), limit)

\* The waypoints held by the buckets of a lattice.
Bucketed(L) ==
  UNION {{L.roadlane_to_waypoints_table_[k][i] :
            i \in 1..Len(L.roadlane_to_waypoints_table_[k])} :
         k \in DOMAIN L.roadlane_to_waypoints_table_}

\* C19: shorten(r) with r smaller than the range removes exactly the nodes
\* whose distance is larger than the distance of the entry plus r, none of
\* them before its front neighbour; afterwards no node that is left has a
\* removed node as front, back, left or right, no removed node is in the
\* waypoint-to-node table or in a bucket, and the exit is a farthest node
\* of those that are left.
C19_ShortenTrimsFarEnd ==
  (last.op = "shorten" /\ last.arg < Range(prev)) =>
    LET limit   == prev.nodes[prev.lattice_entry_].distance + last.arg
        removed == {n \in DOMAIN prev.nodes : prev.nodes[n].distance > limit}
        order   == RemovalOrder(prev, limit)
    IN  /\ DOMAIN lattice.nodes = DOMAIN prev.nodes \ removed
        /\ {order[i] : i \in 1..Len(order)} = removed
        /\ Len(order) = Cardinality(removed)
        /\ \A i, j \in 1..Len(order) :
             prev.nodes[order[i]].front = order[j] => j < i
        /\ \A n \in DOMAIN lattice.nodes :
             /\ lattice.nodes[n].front \notin removed
             /\ lattice.nodes[n].back \notin removed
             /\ lattice.nodes[n].left \notin removed
             /\ lattice.nodes[n].right \notin removed
        /\ DOMAIN lattice.waypoint_to_node_table_ \cap removed = {}
        /\ Bucketed(lattice) \cap removed = {}
        /\ lattice.lattice_exit_ \in DOMAIN lattice.nodes
        /\ \A n \in DOMAIN lattice.nodes :
             lattice.nodes[n].distance <=
               lattice.nodes[lattice.lattice_exit_].distance

\* A shorten() removed two or more rows of nodes of two or more lanes and
\* left more than the entry.
C19_Witness ==
  /\ last.op = "shorten"
  /\ last.arg < Range(prev)
  /\ last.arg > 0
  /\ Range(prev) - Range(lattice) >= 2 * prev.longitudinal_resolution_
  /\ \E a, b \in DOMAIN prev.nodes \ DOMAIN lattice.nodes :
       /\ prev.nodes[a].front = b
       /\ prev.nodes[a].left /= NoNode
  /\ Range(lattice) > 0

\* The nodes reached from the nodes of frontier over front, back, left and
\* right links, seen being the nodes reached before.
RECURSIVE Reach(_, _, _)
Reach(L, seen, frontier) ==
  LET next == UNION {{L.nodes[n].front, L.nodes[n].back,
                      L.nodes[n].left, L.nodes[n].right} : n \in frontier}
              \ (seen \cup frontier \cup {NoNode})
  IN  IF next = {} THEN seen \cup frontier
      ELSE Reach(L, seen \cup frontier, next)

\* C20: in every lattice, after construction and after extend, shorten and
\* shift, the keys of the waypoint-to-node table are the waypoints held by
\* the buckets (and the waypoints of the nodes), every key is held once by
\* the bucket of its road and lane and by no other bucket, and every node
\* of the table is reached from the entry over neighbour links.
C20_IndicesConsistent ==
  LET table   == lattice.waypoint_to_node_table_
      buckets == lattice.roadlane_to_waypoints_table_
      Count(k, id) == Cardinality({i \in 1..Len(buckets[k]) : buckets[k][i] = id})
  IN  /\ DOMAIN table = Bucketed(lattice)
      /\ DOMAIN table = DOMAIN lattice.nodes
      /\ \A id \in DOMAIN table :
           /\ table[id] \in DOMAIN lattice.nodes
           /\ lattice.nodes[table[id]].waypoint.id = id
           /\ \A k \in DOMAIN buckets :
                Count(k, id) =
                  IF k = hashCombine(lattice.nodes[table[id]].waypoint.road,
                                     lattice.nodes[table[id]].waypoint.lane)
                    THEN 1 ELSE 0
      /\ {table[id] : id \in DOMAIN table} \subseteq
           Reach(lattice, {}, {lattice.lattice_entry_})

\* A shorten() emptied a bucket and left a lattice with a bucket of two
\* waypoints and with a lane that ends before the other lanes do.
C20_Witness ==
  /\ last.op = "shorten"
  /\ DOMAIN lattice.nodes /= DOMAIN prev.nodes
  /\ \E k \in DOMAIN lattice.roadlane_to_waypoints_table_ :
       lattice.roadlane_to_waypoints_table_[k] = <<>>
  /\ \E k \in DOMAIN lattice.roadlane_to_waypoints_table_ :
       Len(lattice.roadlane_to_waypoints_table_[k]) = 2
  /\ \E n \in DOMAIN lattice.nodes :
       /\ lattice.nodes[n].front = NoNode
       /\ lattice.nodes[n].distance < Range(lattice)

\* C22: in spawnVehicles, when front(start_waypoint, 50.0) finds no node,
\* the operation fails with the runtime error "Cannot find the ego waypoint
\* on the traffic lattice.", no ego vehicle is spawned, and the null result
\* is never dereferenced.
C22_AbsentNodeIsReported ==
  (asked.op = "spawnVehicles" /\ answer.node = NoNode) =>
    /\ answer.outcome = "runtime_error_ego_waypoint"
    /\ ~answer.dereferenced

=============================================================================
